---------------------------- MODULE Spec2Model ----------------------------
(***************************************************************************)
(* Model of the OpenBLT bootloader core:                                   *)
(*   - Target/Source/ARMCM4_XMC4/cpu.c    (CpuInit, CpuStartUserProgram,   *)
(*                                         CpuMemCopy, CpuMemSet)          *)
(*   - Target/Source/ARMCM4_STM32F3/can.c (CanGetSpeedConfig, CanInit,     *)
(*                                         CanTransmitPacket,              *)
(*                                         CanReceivePacket)               *)
(*                                                                         *)
(* 32-bit quantities (register images, message identifiers, addresses) are *)
(* kept as pairs <<high half-word, low half-word>> so that every bit of    *)
(* the 32-bit width is represented.                                        *)
(***************************************************************************)
EXTENDS Integers, Sequences, FiniteSets, TLC

(***************************************************************************)
(* 32-bit word arithmetic on <<hi, lo>> pairs of 16-bit half-words.        *)
(***************************************************************************)
RECURSIVE BitAnd1(_, _, _)
BitAnd1(a, b, n) ==
    IF n = 0 THEN 0
    ELSE ((a % 2) * (b % 2)) + 2 * BitAnd1(a \div 2, b \div 2, n - 1)

RECURSIVE BitOr1(_, _, _)
BitOr1(a, b, n) ==
    IF n = 0 THEN 0
    ELSE (IF (a % 2) + (b % 2) > 0 THEN 1 ELSE 0)
         + 2 * BitOr1(a \div 2, b \div 2, n - 1)

\* & and | of two 4-bit digits, tabulated
NibbleAnd == [a \in 0..15 |-> [b \in 0..15 |-> BitAnd1(a, b, 4)]]

NibbleOr == [a \in 0..15 |-> [b \in 0..15 |-> BitOr1(a, b, 4)]]

\* a & b on n-bit operands, n a multiple of 4
RECURSIVE BitAnd(_, _, _)
BitAnd(a, b, n) ==
    IF n = 0 THEN 0
    ELSE NibbleAnd[a % 16][b % 16] + 16 * BitAnd(a \div 16, b \div 16, n - 4)

\* a | b on n-bit operands, n a multiple of 4
RECURSIVE BitOr(_, _, _)
BitOr(a, b, n) ==
    IF n = 0 THEN 0
    ELSE NibbleOr[a % 16][b % 16] + 16 * BitOr(a \div 16, b \div 16, n - 4)

RECURSIVE Pow2(_)
Pow2(k) == IF k = 0 THEN 1 ELSE 2 * Pow2(k - 1)

Half == Pow2(16)

And32(x, y) == << BitAnd(x[1], y[1], 16), BitAnd(x[2], y[2], 16) >>

Or32(x, y) == << BitOr(x[1], y[1], 16), BitOr(x[2], y[2], 16) >>

Not32(x) == << (Half - 1) - x[1], (Half - 1) - x[2] >>

\* x << k on a 32-bit word, bits shifted past bit 31 are lost
Shl32(x, k) ==
    IF k >= 16
    THEN << (x[2] * Pow2(k - 16)) % Half, 0 >>
    ELSE << ((x[1] * Pow2(k)) + ((x[2] * Pow2(k)) \div Half)) % Half,
            (x[2] * Pow2(k)) % Half >>

\* x >> k on a 32-bit word (logical shift)
Shr32(x, k) ==
    IF k >= 16
    THEN << 0, x[1] \div Pow2(k - 16) >>
    ELSE << x[1] \div Pow2(k),
            ((x[1] % Pow2(k)) * Pow2(16 - k)) + (x[2] \div Pow2(k)) >>

Zero32 == << 0, 0 >>

\* x - n on a 32-bit word, wrapping at 2^32 (0 <= n < 2^16)
Sub32(x, n) ==
    IF x[2] >= n
    THEN << x[1], x[2] - n >>
    ELSE << (x[1] + Half - 1) % Half, (x[2] + Half) - n >>

\* x + n on a 32-bit word, wrapping at 2^32
Add32(x, n) ==
    << (x[1] + ((x[2] + n) \div Half)) % Half, (x[2] + n) % Half >>

(***************************************************************************)
(* can.c: bus timing table and the resolver CanGetSpeedConfig.             *)
(***************************************************************************)
canTiming ==
    << [tseg1 |->  5, tseg2 |-> 2], [tseg1 |->  6, tseg2 |-> 2],
       [tseg1 |->  6, tseg2 |-> 3], [tseg1 |->  7, tseg2 |-> 3],
       [tseg1 |->  8, tseg2 |-> 3], [tseg1 |->  9, tseg2 |-> 3],
       [tseg1 |->  9, tseg2 |-> 4], [tseg1 |-> 10, tseg2 |-> 4],
       [tseg1 |-> 11, tseg2 |-> 4], [tseg1 |-> 12, tseg2 |-> 4],
       [tseg1 |-> 12, tseg2 |-> 5], [tseg1 |-> 13, tseg2 |-> 5],
       [tseg1 |-> 14, tseg2 |-> 5], [tseg1 |-> 15, tseg2 |-> 5],
       [tseg1 |-> 15, tseg2 |-> 6], [tseg1 |-> 16, tseg2 |-> 6],
       [tseg1 |-> 16, tseg2 |-> 7], [tseg1 |-> 16, tseg2 |-> 8] >>

\* sizeof(canTiming)/sizeof(canTiming[0])
canTimingCount == Len(canTiming)

\* storing an int into a blt_int16u object
ToInt16u(v) == v % Half

\* canTiming[cnt].tseg1 + canTiming[cnt].tseg2 + 1, cnt counted from 0
TimeQuanta(cnt) == canTiming[cnt + 1].tseg1 + canTiming[cnt + 1].tseg2 + 1

\* mutant: the remainder is taken of the bit rate alone
SpeedDividesNoQuanta(speedKhz, baud, cnt) == ((speedKhz \div 2) % baud) = 0

\* ((BOOT_CPU_SYSTEM_SPEED_KHZ/2) % (baud*(tseg1+tseg2+1))) == 0
SpeedDivides(speedKhz, baud, cnt) ==
    ((speedKhz \div 2) % (baud * TimeQuanta(cnt))) = 0

\* mutant: the upper limit of the prescaler is not checked
PrescalerValidNoMax(p) == p > 0

\* (*prescaler > 0) && (*prescaler <= 1024)
PrescalerValid(p) == (p > 0) /\ (p <= 1024)

\* The loop of CanGetSpeedConfig from index cnt on. out holds the caller's
\* objects behind the pointers prescaler, tseg1 and tseg2.
RECURSIVE SpeedConfigLoop(_, _, _, _)
SpeedConfigLoop(cnt, speedKhz, baud, out) ==
    IF cnt >= canTimingCount
    THEN [result |-> FALSE, prescaler |-> out.prescaler,
          tseg1 |-> out.tseg1, tseg2 |-> out.tseg2]
    ELSE IF SpeedDivides(speedKhz, baud, cnt)
         THEN LET p == ToInt16u((speedKhz \div 2) \div (baud * TimeQuanta(cnt)))
              IN  IF PrescalerValid(p)
                  THEN [result |-> TRUE, prescaler |-> p,
                        tseg1 |-> canTiming[cnt + 1].tseg1,
                        tseg2 |-> canTiming[cnt + 1].tseg2]
                  ELSE SpeedConfigLoop(cnt + 1, speedKhz, baud,
                                       [out EXCEPT !.prescaler = p])
         ELSE SpeedConfigLoop(cnt + 1, speedKhz, baud, out)

CanGetSpeedConfig(speedKhz, baud, out) == SpeedConfigLoop(0, speedKhz, baud, out)

(***************************************************************************)
(* Build configuration and the caller's objects of a resolver call.        *)
(***************************************************************************)
VARIABLES
    BOOT_CPU_SYSTEM_SPEED_KHZ,  \* blt_conf.h setting read by CanGetSpeedConfig
    rBaud,                      \* argument baud of the last call
    rBefore,                    \* prescaler, tseg1, tseg2 objects before it
    rOut,                       \* the same objects after it
    rResult,                    \* its return value
    rCalled                     \* whether a call was made

resolverVars == << BOOT_CPU_SYSTEM_SPEED_KHZ, rBaud, rBefore, rOut, rResult, rCalled >>

\* cpu.c: state of the hand-off controller
VARIABLES
    pc,                 \* "entry", "init", "poll", "L85" .. "L117", "app"
    irqEnabled,         \* core interrupt enable state (CpuIrqEnable/Disable)
    SCB_VTOR,           \* vector table offset register, a 32-bit word
    timerCount,         \* free running counter of the timer module
    comState,           \* "uninit", "active", "released"
    nvmChecksumValid,   \* what NvmVerifyChecksum() returns for the image now
    nvmBase,            \* NvmGetUserProgBaseAddress()
    nvmResetVector,     \* the word stored at nvmBase + 4
    hookConfigured,     \* BOOT_CPU_USER_PROGRAM_START_HOOK > 0
    chk,                \* result of NvmVerifyChecksum() in the current call
    hookRes,            \* result of CpuUserProgramStartHook() in the current call
    pProgResetHandler,  \* local of CpuStartUserProgram
    control,            \* address control was transferred to
    callState,          \* "none", "running", "returned", "transferred"
    log,                \* calls and register writes made by the current call
    bootCalls,          \* CpuStartUserProgram calls since CpuInit
    bootChecks          \* NvmVerifyChecksum calls since CpuInit

handoffVars == << pc, irqEnabled, SCB_VTOR, timerCount, comState,
                  nvmChecksumValid, nvmBase, nvmResetVector, hookConfigured,
                  chk, hookRes, pProgResetHandler, control, callState, log,
                  bootCalls, bootChecks >>

\* can.c: build configuration, driver objects and controller of the channel
VARIABLES
    BOOT_COM_CAN_BAUDRATE,    \* blt_conf.h setting, in bits per second
    BOOT_COM_CAN_RX_MSG_ID,   \* blt_conf.h setting, bit 31 set: 29-bit identifier
    BOOT_COM_CAN_TX_MSG_ID,   \* blt_conf.h setting, bit 31 set: 29-bit identifier
    canState,                 \* "uninit", "active", "halted" (assertion failed)
    canBTR,                   \* timing programmed by HAL_CAN_Init, if any
    canFilter,                \* filter bank 0 as programmed by HAL_CAN_ConfigFilter
    canTxMessage,             \* static CanTxMsgTypeDef canTxMessage
    canRxMessage,             \* static CanRxMsgTypeDef canRxMessage
    rxFifo,                   \* receive FIFO 0 of the controller
    rxData,                   \* the caller's buffer behind the pointer data
    rxLen,                    \* the caller's object behind the pointer len
    rxResult,                 \* return value of the last CanReceivePacket
    lastOp,                   \* the last channel operation and what it handled
    opCount                   \* channel operations made so far

canVars == << BOOT_COM_CAN_BAUDRATE, BOOT_COM_CAN_RX_MSG_ID,
              BOOT_COM_CAN_TX_MSG_ID, canState, canBTR, canFilter,
              canTxMessage, canRxMessage, rxFifo, rxData, rxLen, rxResult,
              lastOp, opCount >>

\* cpu.c: one call of CpuMemCopy or CpuMemSet
VARIABLES
    mReq,       \* the call the caller makes: op, dest, src, value, len
    mpc,        \* "idle", "C138", "C143" (copy), "S164", "S169" (set), "done"
    mLen,       \* parameter len, a blt_int16u
    mTo,        \* local to, an address
    mFrom,      \* local from, an address
    mWritten,   \* bytes stored by the call so far
    copCalls,   \* CopService() calls made by the call so far
    mLast,      \* address and value of the last store
    mem         \* the bytes at dest, dest + 1, .. as far as the model keeps them

memVars == << mReq, mpc, mLen, mTo, mFrom, mWritten, copCalls, mLast, mem >>

vars == << resolverVars, handoffVars, canVars, memVars >>

\* core clocks in kHz: targets of the port, faster parts, and a clock whose
\* quotient does not fit the 16-bit prescaler object
SpeedsKhz == { 8000, 16000, 36000, 48000, 64000, 72000,
               164000, 164960, 10485920 }

\* bit rates in kbps inside the documented range 10..1000
BaudsKbps == { 10, 20, 50, 100, 125, 250, 500, 800, 1000 }

\* contents an uninitialized blt_int16u local can have
IndeterminateInt16u == { 0, 65535 }

\* the locals of CanInit before the call: prescaler uninitialized, tseg1 = tseg2 = 0
FreshOut(p) == [prescaler |-> p, tseg1 |-> 0, tseg2 |-> 0]

OutOf(r) == [prescaler |-> r.prescaler, tseg1 |-> r.tseg1, tseg2 |-> r.tseg2]

InitResolver ==
    /\ BOOT_CPU_SYSTEM_SPEED_KHZ \in SpeedsKhz
    /\ rBaud = 0
    /\ \E p \in IndeterminateInt16u : rOut = FreshOut(p)
    /\ rBefore = rOut
    /\ rResult = FALSE
    /\ rCalled = FALSE

\* one call CanGetSpeedConfig(baud, &prescaler, &tseg1, &tseg2)
ResolverCall ==
    \E baud \in BaudsKbps :
        LET r == CanGetSpeedConfig(BOOT_CPU_SYSTEM_SPEED_KHZ, baud, rOut)
        IN  /\ rBaud' = baud
            /\ rBefore' = rOut
            /\ rOut' = OutOf(r)
            /\ rResult' = r.result
            /\ rCalled' = TRUE
            /\ UNCHANGED BOOT_CPU_SYSTEM_SPEED_KHZ
            /\ UNCHANGED << handoffVars, canVars, memVars >>

(***************************************************************************)
(* What the resolver is specified to compute, stated without the loop.     *)
(***************************************************************************)
\* entry i (1..18) divides evenly and its exact quotient is in 1..1024
EntrySatisfies(speedKhz, baud, i) ==
    LET d == baud * (canTiming[i].tseg1 + canTiming[i].tseg2 + 1)
    IN  /\ (speedKhz \div 2) % d = 0
        /\ (speedKhz \div 2) \div d >= 1
        /\ (speedKhz \div 2) \div d <= 1024

SatisfyingEntries(speedKhz, baud) ==
    { i \in 1..Len(canTiming) : EntrySatisfies(speedKhz, baud, i) }

FirstSatisfying(speedKhz, baud) ==
    CHOOSE i \in SatisfyingEntries(speedKhz, baud) :
        \A j \in SatisfyingEntries(speedKhz, baud) : i <= j

ExactPrescaler(speedKhz, baud, i) ==
    (speedKhz \div 2) \div (baud * (canTiming[i].tseg1 + canTiming[i].tseg2 + 1))

\* C5: whenever some table entry satisfies the divisibility and the
\* prescaler-range condition, a call returns BLT_TRUE with the first such
\* entry in table order and its prescaler, whatever earlier calls left in
\* the output objects.
C5_FirstMatch ==
    (rCalled /\ SatisfyingEntries(BOOT_CPU_SYSTEM_SPEED_KHZ, rBaud) # {}) =>
        LET i == FirstSatisfying(BOOT_CPU_SYSTEM_SPEED_KHZ, rBaud)
        IN  /\ rResult = TRUE
            /\ rOut.tseg1 = canTiming[i].tseg1
            /\ rOut.tseg2 = canTiming[i].tseg2
            /\ rOut.prescaler = ExactPrescaler(BOOT_CPU_SYSTEM_SPEED_KHZ, rBaud, i)

\* a successful call that skipped an evenly dividing entry whose prescaler
\* is out of range, made after an earlier call that left another entry
C5_Witness ==
    /\ rCalled
    /\ rResult = TRUE
    /\ SatisfyingEntries(BOOT_CPU_SYSTEM_SPEED_KHZ, rBaud) # {}
    /\ \E k \in 0..(FirstSatisfying(BOOT_CPU_SYSTEM_SPEED_KHZ, rBaud) - 2) :
          SpeedDivides(BOOT_CPU_SYSTEM_SPEED_KHZ, rBaud, k)
    /\ rBefore.tseg1 # 0
    /\ rBefore.tseg1 # rOut.tseg1

\* C6: a call for which no entry satisfies both conditions returns
\* BLT_FALSE and leaves prescaler, tseg1 and tseg2 as they were.
C6_FailureDeliversNothing ==
    (rCalled /\ SatisfyingEntries(BOOT_CPU_SYSTEM_SPEED_KHZ, rBaud) = {}) =>
        (rResult = FALSE /\ rOut = rBefore)

\* the table is ordered by strictly ascending total quanta, and every entry
\* has 1 <= tseg1 <= 16, 1 <= tseg2 <= 8 and 8 .. 25 quanta in total
TableAscendingInRange ==
    /\ \A i \in 1..(canTimingCount - 1) : TimeQuanta(i - 1) < TimeQuanta(i)
    /\ \A i \in 1..canTimingCount :
          /\ canTiming[i].tseg1 \in 1..16
          /\ canTiming[i].tseg2 \in 1..8
          /\ TimeQuanta(i - 1) \in 8..25

\* the segments delivered by the call are those of one entry of the table
DeliveredEntryOfTable ==
    \E i \in 1..canTimingCount :
        /\ rOut.tseg1 = canTiming[i].tseg1
        /\ rOut.tseg2 = canTiming[i].tseg2

\* the delivered prescaler is the quotient itself, not what a 16-bit object
\* keeps of it
PrescalerNotTruncated ==
    rOut.prescaler =
        (BOOT_CPU_SYSTEM_SPEED_KHZ \div 2) \div (rBaud * (rOut.tseg1 + rOut.tseg2 + 1))

\* C20: whenever a call for a bit rate of 10..1000 kbps returns BLT_TRUE,
\* prescaler * rate * (tseg1 + tseg2 + 1) = floor(clock/2), the prescaler is
\* the untruncated quotient in 1..1024, (tseg1, tseg2) is an entry of the
\* table with tseg1 in 1..16, tseg2 in 1..8 and 8..25 quanta, and the table
\* is strictly ascending in total quanta.
C20_ExactAndInRange ==
    (rCalled /\ rResult = TRUE /\ rBaud \in 10..1000) =>
        /\ rOut.prescaler * rBaud * (rOut.tseg1 + rOut.tseg2 + 1)
              = BOOT_CPU_SYSTEM_SPEED_KHZ \div 2
        /\ rOut.prescaler \in 1..1024
        /\ PrescalerNotTruncated
        /\ DeliveredEntryOfTable
        /\ TableAscendingInRange

(***************************************************************************)
(* cpu.c: the hand-off controller.  CpuStartUserProgram is followed        *)
(* statement by statement; pc names the source line about to execute.      *)
(***************************************************************************)
\* #if (BOOT_COM_ENABLE > 0): the bootloader is built with a transport
BOOT_COM_ENABLE == 1

\* largest timer count the model follows
MaxTick == 2

\* CpuStartUserProgram calls followed in one boot cycle
MaxCalls == 3

\* application base addresses: 0x08002000, 0x0C010040 and 0xFFFFFFFF
UserProgBases == { << 2048, 8192 >>, << 3073, 64 >>, << 65535, 65535 >> }

\* reset handler addresses a programmed image can hold: 0x08002189, 0x0C0102A1
ResetHandlers == { << 2048, 8585 >>, << 3073, 673 >> }

\* mutant: the alignment bits are not cleared (0x1FFFFFFF)
VectabMaskNoAlign == << 8191, 65535 >>

\* (blt_int32u)0x1FFFFF80
VectabMask == << 8191, 65408 >>

\* CPU_USER_PROGRAM_STARTADDR_PTR
CPU_USER_PROGRAM_STARTADDR_PTR == Add32(nvmBase, 4)

\* CPU_USER_PROGRAM_VECTABLE_OFFSET
CPU_USER_PROGRAM_VECTABLE_OFFSET == nvmBase

\* *((blt_addr *)addr) for the one address the hand-off reads
ReadWord(addr) == IF addr = Add32(nvmBase, 4) THEN nvmResetVector ELSE Zero32

InitHandoff ==
    /\ pc = "entry"
    /\ irqEnabled = TRUE
    /\ SCB_VTOR = Zero32
    /\ timerCount = 0
    /\ comState = "uninit"
    /\ nvmChecksumValid \in BOOLEAN
    /\ nvmBase \in UserProgBases
    /\ nvmResetVector \in ResetHandlers
    /\ hookConfigured \in BOOLEAN
    /\ chk = "none"
    /\ hookRes = "none"
    /\ pProgResetHandler = Zero32
    /\ control = Zero32
    /\ callState = "none"
    /\ log = << >>
    /\ bootCalls = 0
    /\ bootChecks = 0

\* the hand-off variables while another part of the program is examined
IdleHandoff ==
    /\ pc = "poll"
    /\ irqEnabled = FALSE
    /\ SCB_VTOR = Zero32
    /\ timerCount = 0
    /\ comState = "active"
    /\ nvmChecksumValid = FALSE
    /\ nvmBase = << 2048, 8192 >>
    /\ nvmResetVector = << 2048, 8585 >>
    /\ hookConfigured = FALSE
    /\ chk = "none"
    /\ hookRes = "none"
    /\ pProgResetHandler = Zero32
    /\ control = Zero32
    /\ callState = "none"
    /\ log = << >>
    /\ bootCalls = 0
    /\ bootChecks = 0

\* the resolver variables while another part of the program is examined
IdleResolver ==
    /\ BOOT_CPU_SYSTEM_SPEED_KHZ = 72000
    /\ rBaud = 0
    /\ rOut = FreshOut(0)
    /\ rBefore = FreshOut(0)
    /\ rResult = FALSE
    /\ rCalled = FALSE

\* the bootloader is in its poll loop, between two operations
InPollLoop == pc = "poll" /\ mpc \in { "idle", "done" }

\* mutant: CpuInit leaves the interrupt state as it found it
CpuInitNoDisable ==
    /\ pc = "entry"
    /\ irqEnabled' = irqEnabled
    /\ pc' = "init"
    /\ UNCHANGED << SCB_VTOR, timerCount, comState, nvmChecksumValid, nvmBase,
                    nvmResetVector, hookConfigured, chk, hookRes,
                    pProgResetHandler, control, callState, log >>
    /\ bootCalls' = 0
    /\ bootChecks' = 0
    /\ UNCHANGED << resolverVars, canVars, memVars >>

\* CpuInit(): CpuIrqDisable()
CpuInit ==
    /\ pc = "entry"
    /\ irqEnabled' = FALSE
    /\ pc' = "init"
    /\ UNCHANGED << SCB_VTOR, timerCount, comState, nvmChecksumValid, nvmBase,
                    nvmResetVector, hookConfigured, chk, hookRes,
                    pProgResetHandler, control, callState, log >>
    /\ bootCalls' = 0
    /\ bootChecks' = 0
    /\ UNCHANGED << resolverVars, canVars, memVars >>

\* the timer counts while the poll loop runs
TimerTick ==
    /\ pc = "poll"
    /\ timerCount < MaxTick
    /\ timerCount' = timerCount + 1
    /\ UNCHANGED << pc, irqEnabled, SCB_VTOR, comState, nvmChecksumValid,
                    nvmBase, nvmResetVector, hookConfigured, chk, hookRes,
                    pProgResetHandler, control, callState, log >>
    /\ UNCHANGED << resolverVars, canVars, memVars, bootCalls, bootChecks >>

\* the programming subsystem erases or writes the image between two polls
NvmProgram ==
    /\ InPollLoop
    /\ \E v \in BOOLEAN, h \in ResetHandlers :
          /\ << v, h >> # << nvmChecksumValid, nvmResetVector >>
          /\ nvmChecksumValid' = v
          /\ nvmResetVector' = h
    /\ UNCHANGED << pc, irqEnabled, SCB_VTOR, timerCount, comState, nvmBase,
                    hookConfigured, chk, hookRes, pProgResetHandler, control,
                    callState, log >>
    /\ UNCHANGED << resolverVars, canVars, memVars, bootCalls, bootChecks >>

\* the poll loop calls CpuStartUserProgram()
CSUP_Call ==
    /\ InPollLoop
    /\ bootCalls < MaxCalls
    /\ pc' = "L85"
    /\ callState' = "running"
    /\ chk' = "none"
    /\ hookRes' = "none"
    /\ log' = << >>
    /\ UNCHANGED << irqEnabled, SCB_VTOR, timerCount, comState,
                    nvmChecksumValid, nvmBase, nvmResetVector, hookConfigured,
                    pProgResetHandler, control >>
    /\ bootCalls' = bootCalls + 1
    /\ UNCHANGED bootChecks
    /\ UNCHANGED << resolverVars, canVars, memVars >>

\* mutant: the early return of an invalid image is missing
CSUP_VerifyNoReturn ==
    /\ pc = "L85"
    /\ chk' = IF nvmChecksumValid THEN "true" ELSE "false"
    /\ log' = Append(log, "NvmVerifyChecksum")
    /\ pc' = IF hookConfigured THEN "L92" ELSE "L100"
    /\ UNCHANGED callState
    /\ UNCHANGED << irqEnabled, SCB_VTOR, timerCount, comState,
                    nvmChecksumValid, nvmBase, nvmResetVector, hookConfigured,
                    hookRes, pProgResetHandler, control >>
    /\ bootChecks' = bootChecks + 1
    /\ UNCHANGED bootCalls
    /\ UNCHANGED << resolverVars, canVars, memVars >>

\* mutant: the communication interface is released before the early return
CSUP_VerifyReleaseFirst ==
    /\ pc = "L85"
    /\ chk' = IF nvmChecksumValid THEN "true" ELSE "false"
    /\ log' = Append(log, "NvmVerifyChecksum")
    /\ IF nvmChecksumValid
       THEN /\ pc' = IF hookConfigured THEN "L92" ELSE "L100"
            /\ UNCHANGED << callState, comState >>
       ELSE /\ pc' = "poll"
            /\ callState' = "returned"
            /\ comState' = "released"
    /\ UNCHANGED << irqEnabled, SCB_VTOR, timerCount,
                    nvmChecksumValid, nvmBase, nvmResetVector, hookConfigured,
                    hookRes, pProgResetHandler, control >>
    /\ bootChecks' = bootChecks + 1
    /\ UNCHANGED bootCalls
    /\ UNCHANGED << resolverVars, canVars, memVars >>

\* mutant: the verdict of the first call of a boot cycle is kept and the
\* image is not verified again
CSUP_VerifyCached ==
    /\ pc = "L85"
    /\ chk' = IF nvmChecksumValid THEN "true" ELSE "false"
    /\ log' = Append(log, "NvmVerifyChecksum")
    /\ IF nvmChecksumValid
       THEN /\ pc' = IF hookConfigured THEN "L92" ELSE "L100"
            /\ UNCHANGED callState
       ELSE /\ pc' = "poll"
            /\ callState' = "returned"
    /\ UNCHANGED << irqEnabled, SCB_VTOR, timerCount, comState,
                    nvmChecksumValid, nvmBase, nvmResetVector, hookConfigured,
                    hookRes, pProgResetHandler, control >>
    /\ bootChecks' = IF bootChecks = 0 THEN 1 ELSE bootChecks
    /\ UNCHANGED bootCalls
    /\ UNCHANGED << resolverVars, canVars, memVars >>

\* mutant: once a call of the boot cycle has verified the image, later calls
\* return without starting it
CSUP_VerifyLatched ==
    /\ pc = "L85"
    /\ chk' = IF nvmChecksumValid THEN "true" ELSE "false"
    /\ log' = Append(log, "NvmVerifyChecksum")
    /\ IF nvmChecksumValid /\ bootChecks = 0
       THEN /\ pc' = IF hookConfigured THEN "L92" ELSE "L100"
            /\ UNCHANGED callState
       ELSE /\ pc' = "poll"
            /\ callState' = "returned"
    /\ UNCHANGED << irqEnabled, SCB_VTOR, timerCount, comState,
                    nvmChecksumValid, nvmBase, nvmResetVector, hookConfigured,
                    hookRes, pProgResetHandler, control >>
    /\ bootChecks' = bootChecks + 1
    /\ UNCHANGED bootCalls
    /\ UNCHANGED << resolverVars, canVars, memVars >>

\* mutant: the call waits for the image to become valid instead of returning
CSUP_VerifyWaits ==
    /\ pc = "L85"
    /\ nvmChecksumValid
    /\ chk' = "true"
    /\ log' = Append(log, "NvmVerifyChecksum")
    /\ pc' = IF hookConfigured THEN "L92" ELSE "L100"
    /\ UNCHANGED callState
    /\ UNCHANGED << irqEnabled, SCB_VTOR, timerCount, comState,
                    nvmChecksumValid, nvmBase, nvmResetVector, hookConfigured,
                    hookRes, pProgResetHandler, control >>
    /\ bootChecks' = bootChecks + 1
    /\ UNCHANGED bootCalls
    /\ UNCHANGED << resolverVars, canVars, memVars >>

\* if (NvmVerifyChecksum() == BLT_FALSE) { return; }
CSUP_Verify ==
    /\ pc = "L85"
    /\ chk' = IF nvmChecksumValid THEN "true" ELSE "false"
    /\ log' = Append(log, "NvmVerifyChecksum")
    /\ IF nvmChecksumValid
       THEN /\ pc' = IF hookConfigured THEN "L92" ELSE "L100"
            /\ UNCHANGED callState
       ELSE /\ pc' = "poll"
            /\ callState' = "returned"
    /\ UNCHANGED << irqEnabled, SCB_VTOR, timerCount, comState,
                    nvmChecksumValid, nvmBase, nvmResetVector, hookConfigured,
                    hookRes, pProgResetHandler, control >>
    /\ bootChecks' = bootChecks + 1
    /\ UNCHANGED bootCalls
    /\ UNCHANGED << resolverVars, canVars, memVars >>

\* mutant: the answer of the hook is not evaluated
CSUP_HookIgnored ==
    /\ pc = "L92"
    /\ \E ans \in BOOLEAN :
          /\ hookRes' = IF ans THEN "true" ELSE "false"
          /\ log' = Append(log, "CpuUserProgramStartHook")
          /\ pc' = "L100"
          /\ UNCHANGED callState
    /\ UNCHANGED << irqEnabled, SCB_VTOR, timerCount, comState,
                    nvmChecksumValid, nvmBase, nvmResetVector, hookConfigured,
                    chk, pProgResetHandler, control >>
    /\ UNCHANGED << resolverVars, canVars, memVars, bootCalls, bootChecks >>

\* if (CpuUserProgramStartHook() == BLT_FALSE) { return; }
CSUP_Hook ==
    /\ pc = "L92"
    /\ \E ans \in BOOLEAN :
          /\ hookRes' = IF ans THEN "true" ELSE "false"
          /\ log' = Append(log, "CpuUserProgramStartHook")
          /\ IF ans
             THEN /\ pc' = "L100"
                  /\ UNCHANGED callState
             ELSE /\ pc' = "poll"
                  /\ callState' = "returned"
    /\ UNCHANGED << irqEnabled, SCB_VTOR, timerCount, comState,
                    nvmChecksumValid, nvmBase, nvmResetVector, hookConfigured,
                    chk, pProgResetHandler, control >>
    /\ UNCHANGED << resolverVars, canVars, memVars, bootCalls, bootChecks >>

\* mutant: the timer is reset before the communication interface is released
CSUP_ComFreeAfterTimer ==
    /\ pc = "L100"
    /\ comState' = "released"
    /\ timerCount' = 0
    /\ log' = log \o << "TimerReset", "ComFree" >>
    /\ pc' = "L105"
    /\ UNCHANGED << irqEnabled, SCB_VTOR, nvmChecksumValid, nvmBase,
                    nvmResetVector, hookConfigured, chk, hookRes,
                    pProgResetHandler, control, callState >>
    /\ UNCHANGED << resolverVars, canVars, memVars, bootCalls, bootChecks >>

\* #if (BOOT_COM_ENABLE > 0) ComFree(); #endif
CSUP_ComFree ==
    /\ pc = "L100"
    /\ IF BOOT_COM_ENABLE > 0
       THEN /\ comState' = "released"
            /\ log' = Append(log, "ComFree")
       ELSE UNCHANGED << comState, log >>
    /\ pc' = "L103"
    /\ UNCHANGED << irqEnabled, SCB_VTOR, timerCount, nvmChecksumValid,
                    nvmBase, nvmResetVector, hookConfigured, chk, hookRes,
                    pProgResetHandler, control, callState >>
    /\ UNCHANGED << resolverVars, canVars, memVars, bootCalls, bootChecks >>

\* TimerReset()
CSUP_TimerReset ==
    /\ pc = "L103"
    /\ timerCount' = 0
    /\ log' = Append(log, "TimerReset")
    /\ pc' = "L105"
    /\ UNCHANGED << irqEnabled, SCB_VTOR, comState, nvmChecksumValid, nvmBase,
                    nvmResetVector, hookConfigured, chk, hookRes,
                    pProgResetHandler, control, callState >>
    /\ UNCHANGED << resolverVars, canVars, memVars, bootCalls, bootChecks >>

\* SCB_VTOR = CPU_USER_PROGRAM_VECTABLE_OFFSET & (blt_int32u)0x1FFFFF80
CSUP_WriteVtor ==
    /\ pc = "L105"
    /\ SCB_VTOR' = And32(CPU_USER_PROGRAM_VECTABLE_OFFSET, VectabMask)
    /\ log' = Append(log, "SCB_VTOR")
    /\ pc' = "L110"
    /\ UNCHANGED << irqEnabled, timerCount, comState, nvmChecksumValid,
                    nvmBase, nvmResetVector, hookConfigured, chk, hookRes,
                    pProgResetHandler, control, callState >>
    /\ UNCHANGED << resolverVars, canVars, memVars, bootCalls, bootChecks >>

\* pProgResetHandler = (void(*)(void))(*((blt_addr *)CPU_USER_PROGRAM_STARTADDR_PTR))
CSUP_ReadResetVector ==
    /\ pc = "L110"
    /\ pProgResetHandler' = ReadWord(CPU_USER_PROGRAM_STARTADDR_PTR)
    /\ log' = Append(log, "ReadResetVector")
    /\ pc' = "L115"
    /\ UNCHANGED << irqEnabled, SCB_VTOR, timerCount, comState,
                    nvmChecksumValid, nvmBase, nvmResetVector, hookConfigured,
                    chk, hookRes, control, callState >>
    /\ UNCHANGED << resolverVars, canVars, memVars, bootCalls, bootChecks >>

\* CpuIrqEnable()
CSUP_IrqEnable ==
    /\ pc = "L115"
    /\ irqEnabled' = TRUE
    /\ log' = Append(log, "CpuIrqEnable")
    /\ pc' = "L117"
    /\ UNCHANGED << SCB_VTOR, timerCount, comState, nvmChecksumValid, nvmBase,
                    nvmResetVector, hookConfigured, chk, hookRes,
                    pProgResetHandler, control, callState >>
    /\ UNCHANGED << resolverVars, canVars, memVars, bootCalls, bootChecks >>

\* pProgResetHandler(): the application's reset handler takes over
CSUP_Jump ==
    /\ pc = "L117"
    /\ control' = pProgResetHandler
    /\ log' = Append(log, "pProgResetHandler")
    /\ callState' = "transferred"
    /\ pc' = "app"
    /\ UNCHANGED << irqEnabled, SCB_VTOR, timerCount, comState,
                    nvmChecksumValid, nvmBase, nvmResetVector, hookConfigured,
                    chk, hookRes, pProgResetHandler >>
    /\ UNCHANGED << resolverVars, canVars, memVars, bootCalls, bootChecks >>

(***************************************************************************)
(* cpu.c: CpuMemCopy and CpuMemSet, followed store by store.               *)
(***************************************************************************)
\* bytes at the destination whose contents the model keeps
MemWin == 3

\* 0x20000000 and 0x20001000, the blocks the calls work on
DestAddr == 536870912

SrcAddr == 536875008

\* contents of the memory before a call
RamInit(addr) == (addr % 251) + 1

\* lengths of the calls: none, one, two bytes and the largest blt_int16u
MemLens == { 0, 1, 2, 65535 }

MemRequests ==
    { [op |-> o, dest |-> DestAddr, src |-> SrcAddr, value |-> 165, len |-> n] :
        o \in { "copy", "set" }, n \in MemLens }

\* the calls made while other operations are interleaved
ShortRequests == { r \in MemRequests : r.len = 2 }

NoStore == << 0, 0 >>

MemIdle ==
    /\ mpc = "idle"
    /\ mLen = 0
    /\ mTo = 0
    /\ mFrom = 0
    /\ mWritten = 0
    /\ copCalls = 0
    /\ mLast = NoStore
    /\ mem = [i \in 0..(MemWin - 1) |-> RamInit(DestAddr + i)]

InitMem == mReq \in MemRequests /\ MemIdle

\* the memory variables while another part of the program is examined
IdleMem ==
    /\ mReq = [op |-> "set", dest |-> DestAddr, src |-> SrcAddr, value |-> 165, len |-> 0]
    /\ MemIdle

\* *from for a source address
ReadByte(addr) ==
    IF addr >= mReq.dest /\ addr < mReq.dest + MemWin
    THEN mem[addr - mReq.dest]
    ELSE RamInit(addr)

\* *to = v
StoreByte(addr, v) ==
    IF addr >= mReq.dest /\ addr < mReq.dest + MemWin
    THEN [mem EXCEPT ![addr - mReq.dest] = v]
    ELSE mem

\* CpuMemCopy(dest, src, len): from = src; to = dest
MemCopyCall ==
    /\ InPollLoop
    /\ mpc = "idle"
    /\ mReq.op = "copy"
    /\ mLen' = mReq.len
    /\ mFrom' = mReq.src
    /\ mTo' = mReq.dest
    /\ mWritten' = 0
    /\ copCalls' = 0
    /\ mpc' = "C138"
    /\ UNCHANGED << mReq, mLast, mem >>
    /\ UNCHANGED << resolverVars, handoffVars, canVars >>

\* mutant: while (--len > 0)
MemCopyStorePreDec ==
    /\ mpc = "C138"
    /\ mLen' = ToInt16u(mLen - 1)
    /\ IF ToInt16u(mLen - 1) > 0
       THEN /\ mem' = StoreByte(mTo, ReadByte(mFrom))
            /\ mLast' = << mTo, ReadByte(mFrom) >>
            /\ mTo' = mTo + 1
            /\ mFrom' = mFrom + 1
            /\ mWritten' = mWritten + 1
            /\ mpc' = "C143"
       ELSE /\ mpc' = "done"
            /\ UNCHANGED << mem, mLast, mTo, mFrom, mWritten >>
    /\ UNCHANGED << mReq, copCalls >>
    /\ UNCHANGED << resolverVars, handoffVars, canVars >>

\* while (len-- > 0) { *to++ = *from++;
MemCopyStore ==
    /\ mpc = "C138"
    /\ mLen' = ToInt16u(mLen - 1)
    /\ IF mLen > 0
       THEN /\ mem' = StoreByte(mTo, ReadByte(mFrom))
            /\ mLast' = << mTo, ReadByte(mFrom) >>
            /\ mTo' = mTo + 1
            /\ mFrom' = mFrom + 1
            /\ mWritten' = mWritten + 1
            /\ mpc' = "C143"
       ELSE /\ mpc' = "done"
            /\ UNCHANGED << mem, mLast, mTo, mFrom, mWritten >>
    /\ UNCHANGED << mReq, copCalls >>
    /\ UNCHANGED << resolverVars, handoffVars, canVars >>

\* CopService(); }
MemCopyCop ==
    /\ mpc = "C143"
    /\ copCalls' = copCalls + 1
    /\ mpc' = "C138"
    /\ UNCHANGED << mReq, mLen, mTo, mFrom, mWritten, mLast, mem >>
    /\ UNCHANGED << resolverVars, handoffVars, canVars >>

CpuMemCopy == MemCopyCall \/ MemCopyStore \/ MemCopyCop

\* CpuMemSet(dest, value, len): to = dest
MemSetCall ==
    /\ InPollLoop
    /\ mpc = "idle"
    /\ mReq.op = "set"
    /\ mLen' = mReq.len
    /\ mTo' = mReq.dest
    /\ mWritten' = 0
    /\ copCalls' = 0
    /\ mpc' = "S164"
    /\ UNCHANGED << mReq, mFrom, mLast, mem >>
    /\ UNCHANGED << resolverVars, handoffVars, canVars >>

\* while (len-- > 0) { *to++ = value;
MemSetStore ==
    /\ mpc = "S164"
    /\ mLen' = ToInt16u(mLen - 1)
    /\ IF mLen > 0
       THEN /\ mem' = StoreByte(mTo, mReq.value)
            /\ mLast' = << mTo, mReq.value >>
            /\ mTo' = mTo + 1
            /\ mWritten' = mWritten + 1
            /\ mpc' = "S169"
       ELSE /\ mpc' = "done"
            /\ UNCHANGED << mem, mLast, mTo, mWritten >>
    /\ UNCHANGED << mReq, mFrom, copCalls >>
    /\ UNCHANGED << resolverVars, handoffVars, canVars >>

\* CopService(); }
MemSetCop ==
    /\ mpc = "S169"
    /\ copCalls' = copCalls + 1
    /\ mpc' = "S164"
    /\ UNCHANGED << mReq, mLen, mTo, mFrom, mWritten, mLast, mem >>
    /\ UNCHANGED << resolverVars, handoffVars, canVars >>

CpuMemSet == MemSetCall \/ MemSetStore \/ MemSetCop

(***************************************************************************)
(* can.c: the bus channel.  Register layout and driver behaviour of the    *)
(* bxCAN controller are those of the device header and the HAL driver.     *)
(***************************************************************************)
CAN_ID_STD == 0

CAN_ID_EXT == 4

CAN_RI0R_STID_Pos == 21

CAN_RI0R_EXID_Pos == 3

CAN_BTR_TS1_Pos == 16

CAN_BTR_TS2_Pos == 20

\* 0x7FF << 21
CAN_RI0R_STID_Msk == Shl32(<< 0, 2047 >>, CAN_RI0R_STID_Pos)

\* 0x3FFFF << 3
CAN_RI0R_EXID_Msk == Shl32(<< 3, 65535 >>, CAN_RI0R_EXID_Pos)

\* 0x00000004
CAN_RI0R_IDE == << 0, 4 >>

\* 0x80000000, the ID-type bit of a configured identifier
IdTypeBit == << 32768, 0 >>

\* bytes in the Data array of a message object and in the caller's buffer
DataSize == 8

\* depth of the receive FIFO followed by the model
MaxFifo == 2

\* channel operations followed after start-up
MaxOps == 3

\* bytes behind the caller's pointer data that the model keeps: as many as
\* the four-bit length code of a frame can count
RxBufSize == 15

\* frames pending in the FIFO when polling starts
RxQueued == 3

ZeroData == [i \in 1..DataSize |-> 0]

ZeroBuf == [i \in 1..RxBufSize |-> 0]

\* contents a byte read outside an object can have
IndeterminateInt8u == { 0, 255 }

NoFrame == [ide |-> CAN_ID_STD, id |-> Zero32, dlc |-> 0, data |-> << >>]

\* identifiers of the configurations: 0x667 (11-bit) and 0x98765432
\* (29-bit identifier 0x18765432)
RxMsgIds == { << 0, 1639 >>, << 39030, 21554 >> }

TxMsgIds == { << 0, 1639 >>, << 39030, 21554 >> }

\* frames other nodes put on the bus: the configured identifiers in both
\* widths, identifiers differing from them in one high or one low bit
ForeignFrames ==
    { [ide |-> w, id |-> i, dlc |-> 2, data |-> << 222, 173 >>] :
        w \in { CAN_ID_STD }, i \in { << 0, 1639 >>, << 0, 615 >>, << 0, 1638 >> } }
    \cup
    { [ide |-> w, id |-> i, dlc |-> 2, data |-> << 222, 173 >>] :
        w \in { CAN_ID_EXT },
        i \in { << 0, 1639 >>, << 6262, 21554 >>, << 2166, 21554 >>,
                << 6262, 21555 >> } }

\* frames found pending by a poll: the configured identifiers with length
\* codes up to 15, and frames of the other width or another identifier
PendingFrames ==
    { [ide |-> CAN_ID_STD, id |-> << 0, 1639 >>, dlc |-> 1, data |-> << 17 >>],
      [ide |-> CAN_ID_STD, id |-> << 0, 1639 >>, dlc |-> 15,
       data |-> << 1, 2, 3, 4, 5, 6, 7, 8 >>],
      [ide |-> CAN_ID_STD, id |-> << 0, 1638 >>, dlc |-> 2, data |-> << 222, 173 >>],
      [ide |-> CAN_ID_EXT, id |-> << 6262, 21554 >>, dlc |-> 9,
       data |-> << 8, 7, 6, 5, 4, 3, 2, 1 >>],
      [ide |-> CAN_ID_EXT, id |-> << 2166, 21554 >>, dlc |-> 2, data |-> << 222, 173 >>],
      [ide |-> CAN_ID_EXT, id |-> << 0, 1639 >>, dlc |-> 2, data |-> << 190, 239 >>] }

RECURSIVE Queues(_, _)
Queues(frames, n) ==
    IF n = 0 THEN { << >> }
    ELSE Queues(frames, n - 1)
         \cup { Append(q, f) : q \in { r \in Queues(frames, n - 1) : Len(r) = n - 1 },
                               f \in frames }

\* packets the protocol layer sends: one of every length 0..8
Payloads == { [i \in 1..n |-> (16 * i) + n] : n \in 0..DataSize }

\* clock (kHz) and bit rate (bit/s) settings of the channel's builds: one
\* the table resolves, one no entry divides, one whose only dividing entry
\* needs a prescaler of 1031
CanClockSettings ==
    { << 72000, 500000 >>, << 164960, 500000 >>, << 164960, 10000 >> }

\* ASSERT_RT(cond): a failed run-time assertion does not return
AssertRtHalts(cond) == ~cond

\* the reception filter id and mask computed by CanInit
RxFilterIdMask(rxMsgId) ==
    IF And32(rxMsgId, IdTypeBit) = Zero32
    THEN [id   |-> Shl32(rxMsgId, CAN_RI0R_STID_Pos),
          mask |-> Or32(CAN_RI0R_STID_Msk, CAN_RI0R_IDE)]
    ELSE LET stripped == And32(rxMsgId, Not32(IdTypeBit))
         IN  [id   |-> Or32(Shl32(stripped, CAN_RI0R_EXID_Pos), CAN_RI0R_IDE),
              mask |-> Or32(CAN_RI0R_EXID_Msk, CAN_RI0R_IDE)]

\* the CAN_FilterConfTypeDef handed to HAL_CAN_ConfigFilter
FilterConfig(rxMsgId) ==
    LET f == RxFilterIdMask(rxMsgId)
    IN  [FilterIdHigh     |-> And32(Shr32(f.id, 16), << 0, 65535 >>)[2],
         FilterIdLow      |-> And32(f.id, << 0, 65535 >>)[2],
         FilterMaskIdHigh |-> And32(Shr32(f.mask, 16), << 0, 65535 >>)[2],
         FilterMaskIdLow  |-> And32(f.mask, << 0, 65535 >>)[2],
         FilterActivation |-> TRUE]

\* filter bank 0 when the bootloader is entered: a user program that ran
\* before may have left it storing every frame
FilterAtEntry ==
    [FilterIdHigh |-> 0, FilterIdLow |-> 0, FilterMaskIdHigh |-> 0,
     FilterMaskIdLow |-> 0, FilterActivation |-> TRUE]

\* identifier register image of a frame: STID in bits 31..21, EXID in bits
\* 20..3 (a 29-bit identifier fills bits 31..3), IDE in bit 2
FrameRegister(f) ==
    IF f.ide = CAN_ID_STD
    THEN Shl32(f.id, CAN_RI0R_STID_Pos)
    ELSE Or32(Shl32(f.id, CAN_RI0R_EXID_Pos), CAN_RI0R_IDE)

\* 32-bit identifier/mask mode: every bit set in the mask must compare equal
FilterPasses(flt, f) ==
    /\ flt.FilterActivation
    /\ And32(FrameRegister(f), << flt.FilterMaskIdHigh, flt.FilterMaskIdLow >>)
         = And32(<< flt.FilterIdHigh, flt.FilterIdLow >>,
                 << flt.FilterMaskIdHigh, flt.FilterMaskIdLow >>)

NoMessage ==
    [StdId |-> Zero32, ExtId |-> Zero32, IDE |-> CAN_ID_STD, DLC |-> 0,
     Data |-> ZeroData]

\* record of a channel operation: at is the state of the channel when it was
\* called, hal whether it called into the HAL driver
NoOp ==
    [op |-> "none", at |-> "uninit", hal |-> FALSE, payload |-> << >>,
     sent |-> FALSE, fifoEmpty |-> FALSE, got |-> FALSE, frame |-> NoFrame]

\* the timing register fields of a controller HAL_CAN_Init has not programmed
BtrAtReset == [programmed |-> FALSE, Prescaler |-> 0, BS1 |-> Zero32, BS2 |-> Zero32]

\* the channel before CanInit, with the frames fifo pending in the controller
\* and ops channel operations made before the model follows it
CanAtEntry(fifo, ops) ==
    /\ \E cs \in CanClockSettings :
          /\ BOOT_CPU_SYSTEM_SPEED_KHZ = cs[1]
          /\ BOOT_COM_CAN_BAUDRATE = cs[2]
    /\ BOOT_COM_CAN_RX_MSG_ID \in RxMsgIds
    /\ BOOT_COM_CAN_TX_MSG_ID \in TxMsgIds
    /\ canState = "uninit"
    /\ canBTR = BtrAtReset
    /\ canFilter = FilterAtEntry
    /\ canTxMessage = NoMessage
    /\ canRxMessage = NoMessage
    /\ rxFifo = fifo
    /\ rxData = ZeroBuf
    /\ rxLen = 0
    /\ rxResult = FALSE
    /\ lastOp = NoOp
    /\ opCount = ops
    /\ rBaud = 0
    /\ rOut = FreshOut(0)
    /\ rBefore = FreshOut(0)
    /\ rResult = FALSE
    /\ rCalled = FALSE

InitCan == CanAtEntry(<< >>, 0)

\* frames arrived while the filter was as the previous owner left it
InitRx ==
    /\ \E q \in Queues(PendingFrames, RxQueued) : CanAtEntry(q, 0)
    /\ BOOT_CPU_SYSTEM_SPEED_KHZ = 72000
    /\ BOOT_COM_CAN_TX_MSG_ID = << 0, 1639 >>

\* the channel variables while another part of the program is examined
IdleCan ==
    /\ BOOT_COM_CAN_BAUDRATE = 500000
    /\ BOOT_COM_CAN_RX_MSG_ID = << 0, 1639 >>
    /\ BOOT_COM_CAN_TX_MSG_ID = << 0, 2017 >>
    /\ canState = "uninit"
    /\ canBTR = BtrAtReset
    /\ canFilter = FilterAtEntry
    /\ canTxMessage = NoMessage
    /\ canRxMessage = NoMessage
    /\ rxFifo = << >>
    /\ rxData = ZeroBuf
    /\ rxLen = 0
    /\ rxResult = FALSE
    /\ lastOp = NoOp
    /\ opCount = 0

\* mutant: the result of CanGetSpeedConfig is not evaluated
CanInitUnchecked ==
    /\ canState = "uninit"
    /\ \E p \in IndeterminateInt16u :
         LET r == CanGetSpeedConfig(BOOT_CPU_SYSTEM_SPEED_KHZ,
                                    ToInt16u(BOOT_COM_CAN_BAUDRATE \div 1000),
                                    FreshOut(p))
         IN  /\ canBTR' = [programmed |-> TRUE,
                           Prescaler  |-> r.prescaler,
                           BS1 |-> Shl32(Sub32(<< 0, r.tseg1 >>, 1), CAN_BTR_TS1_Pos),
                           BS2 |-> Shl32(Sub32(<< 0, r.tseg2 >>, 1), CAN_BTR_TS2_Pos)]
             /\ canFilter' = FilterConfig(BOOT_COM_CAN_RX_MSG_ID)
             /\ canState' = "active"
             /\ rBaud' = ToInt16u(BOOT_COM_CAN_BAUDRATE \div 1000)
             /\ rBefore' = FreshOut(p)
             /\ rOut' = OutOf(r)
             /\ rResult' = r.result
             /\ rCalled' = TRUE
    /\ UNCHANGED << BOOT_CPU_SYSTEM_SPEED_KHZ, BOOT_COM_CAN_BAUDRATE,
                    BOOT_COM_CAN_RX_MSG_ID, BOOT_COM_CAN_TX_MSG_ID,
                    canTxMessage, canRxMessage, rxFifo, rxData, rxLen,
                    rxResult, lastOp, opCount >>
    /\ UNCHANGED << handoffVars, memVars >>

\* the statements of CanInit(): resolve the bus timing, halt on failure, otherwise program the
\* controller (HAL_CAN_Init) and the reception filter (HAL_CAN_ConfigFilter)
CanInitEffect ==
    /\ canState = "uninit"
    /\ \E p \in IndeterminateInt16u :
         LET r == CanGetSpeedConfig(BOOT_CPU_SYSTEM_SPEED_KHZ,
                                    ToInt16u(BOOT_COM_CAN_BAUDRATE \div 1000),
                                    FreshOut(p))
         IN  /\ IF (r.result = FALSE) /\ AssertRtHalts(FALSE)
                THEN /\ canState' = "halted"
                     /\ UNCHANGED << canBTR, canFilter >>
                ELSE /\ canBTR' = [programmed |-> TRUE,
                                   Prescaler  |-> r.prescaler,
                                   BS1 |-> Shl32(Sub32(<< 0, r.tseg1 >>, 1), CAN_BTR_TS1_Pos),
                                   BS2 |-> Shl32(Sub32(<< 0, r.tseg2 >>, 1), CAN_BTR_TS2_Pos)]
                     /\ canFilter' = FilterConfig(BOOT_COM_CAN_RX_MSG_ID)
                     /\ canState' = "active"
             /\ rBaud' = ToInt16u(BOOT_COM_CAN_BAUDRATE \div 1000)
             /\ rBefore' = FreshOut(p)
             /\ rOut' = OutOf(r)
             /\ rResult' = r.result
             /\ rCalled' = TRUE
    /\ UNCHANGED << BOOT_CPU_SYSTEM_SPEED_KHZ, BOOT_COM_CAN_BAUDRATE,
                    BOOT_COM_CAN_RX_MSG_ID, BOOT_COM_CAN_TX_MSG_ID,
                    canTxMessage, canRxMessage, rxFifo, rxData, rxLen,
                    rxResult, lastOp, opCount >>

\* CanInit() called on its own
CanInit == CanInitEffect /\ UNCHANGED << handoffVars, memVars >>

\* the rest of the boot initialisation: TimerInit() and ComInit(), which
\* calls CanInit(); when the assertion of CanInit fails the boot stops there
ComInit ==
    /\ pc = "init"
    /\ timerCount' = 0
    /\ CanInitEffect
    /\ IF canState' = "halted"
       THEN /\ pc' = "halt"
            /\ UNCHANGED comState
       ELSE /\ pc' = "poll"
            /\ comState' = "active"
    /\ UNCHANGED << irqEnabled, SCB_VTOR, nvmChecksumValid, nvmBase,
                    nvmResetVector, hookConfigured, chk, hookRes,
                    pProgResetHandler, control, callState, log,
                    bootCalls, bootChecks >>
    /\ UNCHANGED memVars

\* the running application re-enters the bootloader (software reset): a new
\* boot cycle starts with whatever interrupt state the application left; the
\* start-up code clears the driver's static data, the controller keeps its
\* registers
AppReenter ==
    /\ pc = "app"
    /\ pc' = "entry"
    /\ irqEnabled' \in BOOLEAN
    /\ comState' = "uninit"
    /\ callState' = "none"
    /\ chk' = "none"
    /\ hookRes' = "none"
    /\ log' = << >>
    /\ control' = Zero32
    /\ pProgResetHandler' = Zero32
    /\ UNCHANGED << SCB_VTOR, timerCount, nvmChecksumValid, nvmBase,
                    nvmResetVector, hookConfigured >>
    /\ bootCalls' = 0
    /\ bootChecks' = 0
    /\ canState' = "uninit"
    /\ canTxMessage' = NoMessage
    /\ canRxMessage' = NoMessage
    /\ UNCHANGED << BOOT_COM_CAN_BAUDRATE, BOOT_COM_CAN_RX_MSG_ID,
                    BOOT_COM_CAN_TX_MSG_ID, canBTR, canFilter, rxFifo, rxData,
                    rxLen, rxResult, lastOp, opCount >>
    /\ UNCHANGED << resolverVars, memVars >>

\* mutant: the copy loop stops one byte early
TxCopyShort(dst, src, len) ==
    [i \in 1..DataSize |-> IF i < len THEN src[i] ELSE dst[i]]

\* for (byteIdx = 0; byteIdx < len; byteIdx++) Data[byteIdx] = data[byteIdx]
TxCopy(dst, src, len) ==
    [i \in 1..DataSize |-> IF i <= len THEN src[i] ELSE dst[i]]

\* the message object as CanTransmitPacket sets it up
TxMessage(msg, txMsgId, data, len) ==
    LET m == IF And32(txMsgId, IdTypeBit) = Zero32
             THEN [msg EXCEPT !.StdId = txMsgId, !.IDE = CAN_ID_STD]
             ELSE [msg EXCEPT !.ExtId = And32(txMsgId, Not32(IdTypeBit)),
                              !.IDE = CAN_ID_EXT]
    IN  [m EXCEPT !.DLC = len, !.Data = TxCopy(msg.Data, data, len)]

\* HAL_CAN_Transmit: the frame a mailbox sends for a message object; the
\* identifier goes through the mailbox identifier register
FrameOfMessage(msg) ==
    [ide  |-> msg.IDE,
     id   |-> IF msg.IDE = CAN_ID_STD
              THEN Shr32(Shl32(msg.StdId, CAN_RI0R_STID_Pos), CAN_RI0R_STID_Pos)
              ELSE Shr32(Shl32(msg.ExtId, CAN_RI0R_EXID_Pos), CAN_RI0R_EXID_Pos),
     dlc  |-> msg.DLC,
     data |-> SubSeq(msg.Data, 1, IF msg.DLC < DataSize THEN msg.DLC ELSE DataSize)]

\* the controller stores a frame that passes the filter while the FIFO has room
Deliver(fifo, flt, f) ==
    IF FilterPasses(flt, f) /\ Len(fifo) < MaxFifo THEN Append(fifo, f) ELSE fifo

\* HAL_CAN_Receive: the message object filled from the FIFO's oldest frame
MessageOfFrame(msg, f) ==
    LET rir == FrameRegister(f)
        m   == [msg EXCEPT !.IDE = And32(rir, CAN_RI0R_IDE)[2],
                           !.DLC = f.dlc,
                           !.Data = [i \in 1..DataSize |->
                                       IF i <= Len(f.data) THEN f.data[i] ELSE 0]]
    IN  IF m.IDE = CAN_ID_STD
        THEN [m EXCEPT !.StdId = And32(Shr32(rir, CAN_RI0R_STID_Pos), << 0, 2047 >>)]
        ELSE [m EXCEPT !.ExtId = And32(Shr32(rir, CAN_RI0R_EXID_Pos), << 8191, 65535 >>)]

\* mutant: packetIdMatches starts out BLT_TRUE
PacketIdMatchesAlways(rxMsgId, msg) == TRUE

\* the identifier check of CanReceivePacket
PacketIdMatches(rxMsgId, msg) ==
    IF And32(rxMsgId, IdTypeBit) = Zero32
    THEN (msg.StdId = rxMsgId) /\ (msg.IDE = CAN_ID_STD)
    ELSE (msg.ExtId = And32(rxMsgId, Not32(IdTypeBit))) /\ (msg.IDE = CAN_ID_EXT)

\* for (byteIdx = 0; byteIdx < DLC; byteIdx++) data[byteIdx] = Data[byteIdx];
\* Data has DataSize elements, a read past them yields the byte oob
RxCopy(dst, src, dlc, oob) ==
    [i \in 1..RxBufSize |->
        IF i <= dlc THEN (IF i <= DataSize THEN src[i] ELSE oob) ELSE dst[i]]

\* CanTransmitPacket(data, len); HAL_CAN_Transmit sends the frame or times
\* out, its return value is not evaluated.  The bus is looped back: a sent
\* frame reaches the receiving controller, which runs this same driver.
\* The function tests no state of the channel.  Before CanInit has run,
\* canHandle.pTxMsg is a null pointer: the stores of lines 244-261 do not
\* reach canTxMessage, HAL_CAN_Transmit is called all the same and no frame
\* is sent.
CanTransmitPacket ==
    /\ InPollLoop
    /\ canState # "halted"
    /\ opCount < MaxOps
    /\ IF canState = "active"
       THEN \E data \in Payloads, ok \in BOOLEAN :
              LET msg == TxMessage(canTxMessage, BOOT_COM_CAN_TX_MSG_ID, data, Len(data))
              IN  /\ canTxMessage' = msg
                  /\ rxFifo' = IF ok THEN Deliver(rxFifo, canFilter, FrameOfMessage(msg))
                                     ELSE rxFifo
                  /\ lastOp' = [op |-> "send", at |-> canState, hal |-> TRUE,
                                payload |-> data, sent |-> ok,
                                fifoEmpty |-> (rxFifo = << >>), got |-> FALSE,
                                frame |-> NoFrame]
       ELSE /\ lastOp' = [op |-> "send", at |-> canState, hal |-> TRUE,
                          payload |-> << >>, sent |-> FALSE, fifoEmpty |-> FALSE,
                          got |-> FALSE, frame |-> NoFrame]
            /\ UNCHANGED << canTxMessage, rxFifo >>
    /\ opCount' = opCount + 1
    /\ UNCHANGED << BOOT_CPU_SYSTEM_SPEED_KHZ, BOOT_COM_CAN_BAUDRATE,
                    BOOT_COM_CAN_RX_MSG_ID, BOOT_COM_CAN_TX_MSG_ID, canState,
                    canBTR, canFilter, canRxMessage, rxData, rxLen, rxResult,
                    rBaud, rBefore, rOut, rResult, rCalled >>
    /\ UNCHANGED << handoffVars, memVars >>

\* mutant: data and length are copied out before the identifier is checked
CanReceivePacketCopyFirst ==
    /\ InPollLoop
    /\ canState # "halted"
    /\ opCount < MaxOps
    /\ IF canState # "active"
       THEN /\ \E r \in BOOLEAN :
                 /\ rxResult' = r
                 /\ rxLen' = IF r THEN 0 ELSE rxLen
            /\ lastOp' = [op |-> "recv", at |-> canState, hal |-> TRUE,
                          payload |-> << >>, sent |-> FALSE, fifoEmpty |-> FALSE,
                          got |-> FALSE, frame |-> NoFrame]
            /\ UNCHANGED << canRxMessage, rxFifo, rxData >>
       ELSE IF rxFifo # << >>
       THEN LET f   == Head(rxFifo)
                msg == MessageOfFrame(canRxMessage, f)
            IN  /\ canRxMessage' = msg
                /\ rxFifo' = Tail(rxFifo)
                /\ IF PacketIdMatches(BOOT_COM_CAN_RX_MSG_ID, msg)
                   THEN /\ \E oob \in (IF msg.DLC > DataSize
                                        THEN IndeterminateInt8u ELSE { 0 }) :
                              rxData' = RxCopy(rxData, msg.Data, msg.DLC, oob)
                        /\ rxLen' = msg.DLC
                        /\ rxResult' = TRUE
                   ELSE /\ rxData' = RxCopy(rxData, msg.Data, msg.DLC, 0)
                        /\ rxLen' = msg.DLC
                        /\ rxResult' = FALSE
                /\ lastOp' = [op |-> "recv", at |-> canState, hal |-> TRUE,
                              payload |-> IF lastOp.op = "send" THEN lastOp.payload ELSE << >>,
                              sent |-> (lastOp.op = "send" /\ lastOp.sent),
                              fifoEmpty |-> (lastOp.op = "send" /\ lastOp.fifoEmpty),
                              got |-> TRUE, frame |-> f]
       ELSE /\ rxResult' = FALSE
            /\ lastOp' = [op |-> "recv", at |-> canState, hal |-> TRUE,
                          payload |-> IF lastOp.op = "send" THEN lastOp.payload ELSE << >>,
                          sent |-> (lastOp.op = "send" /\ lastOp.sent),
                          fifoEmpty |-> (lastOp.op = "send" /\ lastOp.fifoEmpty),
                          got |-> FALSE, frame |-> NoFrame]
            /\ UNCHANGED << canRxMessage, rxFifo, rxData, rxLen >>
    /\ opCount' = opCount + 1
    /\ UNCHANGED << BOOT_CPU_SYSTEM_SPEED_KHZ, BOOT_COM_CAN_BAUDRATE,
                    BOOT_COM_CAN_RX_MSG_ID, BOOT_COM_CAN_TX_MSG_ID, canState,
                    canBTR, canFilter, canTxMessage,
                    rBaud, rBefore, rOut, rResult, rCalled >>
    /\ UNCHANGED << handoffVars, memVars >>

\* CanReceivePacket(data, len): poll the FIFO, copy a matching frame out.
\* The function tests no state of the channel.  Before CanInit has run the
\* handle holds null pointers: HAL_CAN_Receive is called all the same, what
\* it returns and what is read through canHandle.pRxMsg is indeterminate.
CanReceivePacket ==
    /\ InPollLoop
    /\ canState # "halted"
    /\ opCount < MaxOps
    /\ IF canState # "active"
       THEN /\ \E r \in BOOLEAN :
                 /\ rxResult' = r
                 /\ rxLen' = IF r THEN 0 ELSE rxLen
            /\ lastOp' = [op |-> "recv", at |-> canState, hal |-> TRUE,
                          payload |-> << >>, sent |-> FALSE, fifoEmpty |-> FALSE,
                          got |-> FALSE, frame |-> NoFrame]
            /\ UNCHANGED << canRxMessage, rxFifo, rxData >>
       ELSE IF rxFifo # << >>
       THEN LET f   == Head(rxFifo)
                msg == MessageOfFrame(canRxMessage, f)
            IN  /\ canRxMessage' = msg
                /\ rxFifo' = Tail(rxFifo)
                /\ IF PacketIdMatches(BOOT_COM_CAN_RX_MSG_ID, msg)
                   THEN /\ \E oob \in (IF msg.DLC > DataSize
                                        THEN IndeterminateInt8u ELSE { 0 }) :
                              rxData' = RxCopy(rxData, msg.Data, msg.DLC, oob)
                        /\ rxLen' = msg.DLC
                        /\ rxResult' = TRUE
                   ELSE /\ rxResult' = FALSE
                        /\ UNCHANGED << rxData, rxLen >>
                /\ lastOp' = [op |-> "recv", at |-> canState, hal |-> TRUE,
                              payload |-> IF lastOp.op = "send" THEN lastOp.payload ELSE << >>,
                              sent |-> (lastOp.op = "send" /\ lastOp.sent),
                              fifoEmpty |-> (lastOp.op = "send" /\ lastOp.fifoEmpty),
                              got |-> TRUE, frame |-> f]
       ELSE /\ rxResult' = FALSE
            /\ lastOp' = [op |-> "recv", at |-> canState, hal |-> TRUE,
                          payload |-> IF lastOp.op = "send" THEN lastOp.payload ELSE << >>,
                          sent |-> (lastOp.op = "send" /\ lastOp.sent),
                          fifoEmpty |-> (lastOp.op = "send" /\ lastOp.fifoEmpty),
                          got |-> FALSE, frame |-> NoFrame]
            /\ UNCHANGED << canRxMessage, rxFifo, rxData, rxLen >>
    /\ opCount' = opCount + 1
    /\ UNCHANGED << BOOT_CPU_SYSTEM_SPEED_KHZ, BOOT_COM_CAN_BAUDRATE,
                    BOOT_COM_CAN_RX_MSG_ID, BOOT_COM_CAN_TX_MSG_ID, canState,
                    canBTR, canFilter, canTxMessage,
                    rBaud, rBefore, rOut, rResult, rCalled >>
    /\ UNCHANGED << handoffVars, memVars >>

\* another node sends a frame; before CanInit the filter is as the previous
\* owner of the controller left it
BusFrameArrives ==
    /\ canState # "halted"
    /\ opCount < MaxOps
    /\ \E f \in ForeignFrames : rxFifo' = Deliver(rxFifo, canFilter, f)
    /\ lastOp' = [NoOp EXCEPT !.op = "bus"]
    /\ opCount' = opCount + 1
    /\ UNCHANGED << BOOT_CPU_SYSTEM_SPEED_KHZ, BOOT_COM_CAN_BAUDRATE,
                    BOOT_COM_CAN_RX_MSG_ID, BOOT_COM_CAN_TX_MSG_ID, canState,
                    canBTR, canFilter, canTxMessage, canRxMessage, rxData,
                    rxLen, rxResult, rBaud, rBefore, rOut, rResult, rCalled >>
    /\ UNCHANGED << handoffVars, memVars >>

InitSpecCan == InitCan /\ IdleHandoff /\ IdleMem

NextCan ==
    \/ CanInit
    \/ CanTransmitPacket
    \/ CanReceivePacket
    \/ BusFrameArrives

SpecCan == InitSpecCan /\ [][NextCan]_vars

InitSpecRx == InitRx /\ IdleHandoff /\ IdleMem

NextRx == CanInit \/ CanReceivePacket

SpecRx == InitSpecRx /\ [][NextRx]_vars

InitSpecMem == InitMem /\ IdleHandoff /\ IdleResolver /\ IdleCan

NextMem == CpuMemCopy \/ CpuMemSet

SpecMem == InitSpecMem /\ [][NextMem]_vars

CpuStartUserProgram ==
    \/ CSUP_Call
    \/ CSUP_Verify
    \/ CSUP_Hook
    \/ CSUP_ComFree
    \/ CSUP_TimerReset
    \/ CSUP_WriteVtor
    \/ CSUP_ReadResetVector
    \/ CSUP_IrqEnable
    \/ CSUP_Jump

Init == InitHandoff /\ IdleResolver /\ IdleCan /\ IdleMem

Next ==
    \/ CpuInit
    \/ ComInit
    \/ TimerTick
    \/ NvmProgram
    \/ CpuStartUserProgram
    \/ AppReenter

Spec == Init /\ [][Next]_vars

\* the resident bootloader: boot, poll loop with one channel operation and
\* one memory operation between the hand-off attempts, re-entry
InitResident ==
    /\ InitHandoff
    /\ nvmBase = << 2048, 8192 >>
    /\ nvmResetVector = << 2048, 8585 >>
    /\ ~nvmChecksumValid
    /\ hookConfigured
    /\ \E q \in Queues({ f \in PendingFrames : f.dlc = 1 }, 1) :
          /\ Len(q) = 1
          /\ CanAtEntry(q, MaxOps - 1)
    /\ BOOT_COM_CAN_BAUDRATE = 500000
    /\ BOOT_COM_CAN_RX_MSG_ID = << 0, 1639 >>
    /\ BOOT_COM_CAN_TX_MSG_ID = << 0, 1639 >>
    /\ mReq \in ShortRequests
    /\ MemIdle

NextResident ==
    \/ Next
    \/ CanTransmitPacket
    \/ CanReceivePacket
    \/ CpuMemCopy
    \/ CpuMemSet

SpecResident == InitResident /\ [][NextResident]_vars

\* C13: after CpuInit interrupts are disabled in every state of the
\* bootloader, whatever calls are made, and they are enabled only by the last
\* step of a hand-off that succeeded
BootloaderPcs ==
    { "init", "poll", "L85", "L92", "L100", "L103", "L105", "L110", "L115",
      "halt" }

C13_IrqOffWhileResident ==
    /\ [](pc \in BootloaderPcs => ~irqEnabled)
    /\ [][(irqEnabled' /\ ~irqEnabled) => (pc = "L115" /\ pc' = "L117")]_vars

C13_Witness ==
    /\ pc = "poll"
    /\ ~irqEnabled
    /\ callState = "returned"
    /\ mpc = "done"
    /\ lastOp.op = "recv"
    /\ bootCalls = 2
    /\ SCB_VTOR # Zero32

\* the calls of one boot cycle on a fixed image: start-up, then hand-off
\* attempts, one channel operation and one memory operation in any order
InitCalls ==
    /\ InitHandoff
    /\ nvmBase = << 2048, 8192 >>
    /\ nvmResetVector = << 2048, 8585 >>
    /\ \E q \in Queues({ f \in PendingFrames : f.dlc = 1 }, 1) :
          CanAtEntry(q, MaxOps - 1)
    /\ BOOT_COM_CAN_BAUDRATE = 500000
    /\ BOOT_COM_CAN_RX_MSG_ID = << 0, 1639 >>
    /\ BOOT_COM_CAN_TX_MSG_ID = << 0, 1639 >>
    /\ mReq \in ShortRequests
    /\ MemIdle

NextCalls ==
    \/ CpuInit
    \/ ComInit
    \/ CpuStartUserProgram
    \/ CanTransmitPacket
    \/ CanReceivePacket
    \/ CpuMemCopy
    \/ CpuMemSet

\* the processor keeps executing the operation it is in
SpecCalls ==
    /\ InitCalls
    /\ [][NextCalls]_vars
    /\ WF_vars(CpuInit)
    /\ WF_vars(ComInit)
    /\ WF_vars(CpuStartUserProgram)
    /\ WF_vars(CpuMemCopy)
    /\ WF_vars(CpuMemSet)

\* a copy or fill is between its call and its return
MemRunning == mpc \in { "C138", "C143", "S164", "S169" }

\* C19 as stated: every call eventually returns to its caller, the call of
\* CanInit with a failing resolver included
C19_EveryCallReturns ==
    /\ (pc = "init") ~> (pc = "poll")
    /\ MemRunning ~> (mpc = "done")
    /\ (callState = "running") ~> (callState \in { "returned", "transferred" })

\* C19 amended: every call of copy, fill and CpuStartUserProgram ends, and
\* the configuration ends unless the resolver failed; then, and only then,
\* the program stops in the assertion for good
C19_CallsReturnOrHalt ==
    /\ (pc = "init") ~> (pc = "poll" \/ pc = "halt")
    /\ MemRunning ~> (mpc = "done")
    /\ (callState = "running") ~> (callState \in { "returned", "transferred" })
    /\ [](pc = "halt" => (rCalled /\ ~rResult /\ canState = "halted"))
    /\ []((pc = "poll" /\ rCalled) => (rResult /\ canState = "active"))
    /\ [][pc = "halt" => pc' = "halt"]_vars

C19_Witness ==
    /\ pc = "poll"
    /\ callState = "returned"
    /\ chk = "false"
    /\ mpc = "done"
    /\ lastOp.op = "send"
    /\ canState = "active"

(***************************************************************************)
(* Properties of the hand-off controller.                                  *)
(***************************************************************************)
IsPrefix(a, b) == Len(a) <= Len(b) /\ a = SubSeq(b, 1, Len(a))

Occurrences(e) == Cardinality({ i \in 1..Len(log) : log[i] = e })

\* the calls and writes of a call that hands off, in source order
HandoffSequence ==
    << "NvmVerifyChecksum" >>
    \o (IF hookConfigured THEN << "CpuUserProgramStartHook" >> ELSE << >>)
    \o << "ComFree", "TimerReset", "SCB_VTOR", "ReadResetVector",
          "CpuIrqEnable", "pProgResetHandler" >>

NotVetoed == (~hookConfigured) \/ hookRes = "true"

\* C1: a call whose checksum verification succeeds and that is not vetoed
\* performs ComFree, TimerReset, the SCB_VTOR write, the read of the reset
\* vector, CpuIrqEnable and the jump, each once and in this order, and does
\* not return to its caller.
C1_HandoffOrder ==
    /\ (callState = "running" /\ chk = "true" /\ hookRes # "false")
          => IsPrefix(log, HandoffSequence)
    /\ callState = "transferred"
          => /\ log = HandoffSequence
             /\ pc = "app"
             /\ comState = "released"
             /\ timerCount = 0
             /\ SCB_VTOR = And32(nvmBase, VectabMask)
             /\ irqEnabled
             /\ control = nvmResetVector
    /\ (callState = "returned") => ~(chk = "true" /\ NotVetoed)
    /\ (pc = "app") => callState = "transferred"

\* control is with the application after a hand-off that consulted the hook
C1_Witness ==
    /\ pc = "app"
    /\ callState = "transferred"
    /\ hookConfigured
    /\ Len(log) = 8

\* C2: a jump, a write of SCB_VTOR or an interrupt enable is made only by a
\* call in which NvmVerifyChecksum returned true for the image as it is
\* (and the configured hook returned true).
C2_TransferOnlyVerified ==
    /\ \A i \in 1..Len(log) :
          log[i] \in { "SCB_VTOR", "CpuIrqEnable", "pProgResetHandler" }
             => (chk = "true" /\ nvmChecksumValid /\ NotVetoed)
    /\ (pc = "app") => (chk = "true" /\ nvmChecksumValid /\ NotVetoed)
    /\ (pc \in { "poll", "L85", "L92", "L100", "L103", "L105" }) => ~irqEnabled

\* a call that found the image invalid returned, in a boot cycle that follows
\* an earlier hand-off
C2_Witness ==
    /\ callState = "returned"
    /\ chk = "false"
    /\ ~irqEnabled
    /\ SCB_VTOR # Zero32
    /\ log = << "NvmVerifyChecksum" >>

\* C3: a call made while NvmVerifyChecksum returns false returns and leaves
\* the channel, the timer, SCB_VTOR and the interrupt enable state as they
\* were; the hook is not invoked and control is not transferred.
C3_InvalidImageNoEffect ==
    [][ (pc = "L85" /\ ~nvmChecksumValid) =>
            /\ pc' = "poll"
            /\ callState' = "returned"
            /\ comState' = comState
            /\ timerCount' = timerCount
            /\ SCB_VTOR' = SCB_VTOR
            /\ irqEnabled' = irqEnabled
            /\ control' = control
            /\ hookRes' = "none"
            /\ log' = << "NvmVerifyChecksum" >> ]_vars

\* such a call has returned although a hook is configured and the timer ran
C3_Witness ==
    /\ callState = "returned"
    /\ chk = "false"
    /\ hookConfigured
    /\ hookRes = "none"
    /\ comState = "active"
    /\ timerCount > 0

\* C4: when the configured hook returns false for a valid image the call
\* returns without releasing the channel, resetting the timer, writing
\* SCB_VTOR, enabling interrupts or transferring control; the hook is
\* called only after the checksum verification passed, at most once a call.
C4_VetoNoEffect ==
    /\ [][ (pc = "L92" /\ hookRes' = "false") =>
              /\ pc' = "poll"
              /\ callState' = "returned"
              /\ comState' = comState
              /\ timerCount' = timerCount
              /\ SCB_VTOR' = SCB_VTOR
              /\ irqEnabled' = irqEnabled
              /\ control' = control ]_vars
    /\ [] /\ Occurrences("CpuUserProgramStartHook") <= 1
          /\ (hookRes # "none") <=> (Occurrences("CpuUserProgramStartHook") = 1)
          /\ (hookRes # "none") =>
                /\ hookConfigured
                /\ chk = "true"
                /\ SubSeq(log, 1, 2) = << "NvmVerifyChecksum", "CpuUserProgramStartHook" >>
          /\ (callState = "returned" /\ hookRes = "false") =>
                log = << "NvmVerifyChecksum", "CpuUserProgramStartHook" >>

\* a vetoed call has returned with the channel active and the timer running
C4_Witness ==
    /\ callState = "returned"
    /\ chk = "true"
    /\ hookRes = "false"
    /\ comState = "active"
    /\ timerCount > 0
    /\ ~irqEnabled

\* C12 as stated: in one boot cycle the image is verified exactly once and at
\* most one hand-off attempt (CpuStartUserProgram call) is made.
C12_OneCheckPerBoot ==
    /\ bootChecks <= 1
    /\ bootCalls <= 1
    /\ (callState \in { "returned", "transferred" }) => bootChecks = 1

\* C12 amended: every CpuStartUserProgram call verifies the image exactly
\* once, so a boot cycle has as many verifications as calls; a call that
\* transferred control is the last of its boot cycle.
C12_OneCheckPerCall ==
    /\ [] /\ bootChecks = bootCalls - (IF pc = "L85" THEN 1 ELSE 0)
          /\ Occurrences("NvmVerifyChecksum")
                = (IF callState = "none" \/ pc = "L85" THEN 0 ELSE 1)
          /\ (callState = "transferred") => pc = "app"
    /\ [][ (callState = "transferred") => (pc' = "entry" /\ bootCalls' = 0) ]_vars

\* the third call of a boot cycle handed off, after two that returned
C12_Witness ==
    /\ callState = "transferred"
    /\ bootCalls = 3
    /\ bootChecks = 3

\* the byte a call has to leave at dest + i
ExpectedByte(i) ==
    IF mReq.op = "copy" THEN RamInit(mReq.src + i) ELSE mReq.value

\* C14: CpuMemCopy and CpuMemSet store exactly len bytes, one at a time at
\* consecutive addresses from dest on, and call CopService once after each
\* store: len stores and len calls in total, none for len = 0.
C14_OneServicePerByte ==
    /\ (mpc \in { "C138", "S164" }) =>
          /\ copCalls = mWritten
          /\ mWritten + mLen = mReq.len
    /\ (mpc \in { "C143", "S169" }) =>
          /\ mWritten = copCalls + 1
          /\ mWritten + mLen = mReq.len
          /\ mLast = << mReq.dest + copCalls, ExpectedByte(copCalls) >>
    /\ (mpc = "done") =>
          /\ mWritten = mReq.len
          /\ copCalls = mReq.len
    /\ (mpc # "idle") =>
          /\ mTo = mReq.dest + mWritten
          /\ \A i \in 0..(MemWin - 1) :
                mem[i] = (IF i < mWritten THEN ExpectedByte(i)
                                          ELSE RamInit(mReq.dest + i))

\* a copy of two bytes has returned, the byte after them is as it was
C14_Witness ==
    /\ mpc = "done"
    /\ mReq.op = "copy"
    /\ mReq.len = 2
    /\ copCalls = 2
    /\ mLast = << DestAddr + 1, RamInit(SrcAddr + 1) >>
    /\ mem[2] = RamInit(DestAddr + 2)

\* bit k (0..31) of a 32-bit word
Bit32(x, k) ==
    IF k >= 16 THEN (x[1] \div Pow2(k - 16)) % 2 ELSE (x[2] \div Pow2(k)) % 2

VtorWritten == \E i \in 1..Len(log) : log[i] = "SCB_VTOR"

\* C15 as stated: the value written to SCB_VTOR is the base address with
\* bits 6..0 cleared, confined to a 21-bit window (bits 20..7 kept).
C15_Window21 ==
    VtorWritten =>
        \A k \in 0..31 :
            Bit32(SCB_VTOR, k) = (IF k >= 7 /\ k <= 20 THEN Bit32(nvmBase, k) ELSE 0)

\* C15 amended: the value written to SCB_VTOR is the base address with bits
\* 6..0 and bits 31..29 cleared; bits 28..7 are written unchanged.
C15_Window29 ==
    VtorWritten =>
        \A k \in 0..31 :
            Bit32(SCB_VTOR, k) = (IF k >= 7 /\ k <= 28 THEN Bit32(nvmBase, k) ELSE 0)

\* the register was written for the base address 0xFFFFFFFF
C15_Witness ==
    /\ VtorWritten
    /\ nvmBase = << 65535, 65535 >>
    /\ SCB_VTOR = << 8191, 65408 >>

\* C17: a call decides on the image and the hook answer as they are now, not
\* on earlier calls: whenever the image verifies and the hook allows it the
\* call goes on to the hand-off, and a hand-off made after failed calls is
\* the complete sequence.
C17_NoLatch ==
    /\ [][ (pc = "L85" /\ nvmChecksumValid) =>
              (pc' = IF hookConfigured THEN "L92" ELSE "L100") ]_vars
    /\ [][ (pc = "L92" /\ hookRes' = "true") => pc' = "L100" ]_vars
    /\ [] ( (callState = "transferred" /\ bootCalls > 1) =>
              /\ log = HandoffSequence
              /\ comState = "released"
              /\ timerCount = 0
              /\ irqEnabled
              /\ control = nvmResetVector )

\* a hand-off with a hook, made by the third call of its boot cycle while
\* the timer had been running
C17_Witness ==
    /\ callState = "transferred"
    /\ bootCalls = MaxCalls
    /\ hookConfigured
    /\ hookRes = "true"
    /\ control # Zero32

(***************************************************************************)
(* Properties of the bus channel.                                          *)
(***************************************************************************)
\* frame f carries the configured identifier in the configured width
FrameMatches(msgId, f) ==
    IF msgId[1] >= 32768
    THEN f.ide = CAN_ID_EXT /\ f.id = << msgId[1] - 32768, msgId[2] >>
    ELSE f.ide = CAN_ID_STD /\ f.id = msgId

\* the frames of the model: those of other nodes and the channel's own
AllFrames ==
    ForeignFrames \cup
    { [ide |-> w, id |-> << m[1] % 32768, m[2] >>, dlc |-> Len(d), data |-> d] :
        w \in { CAN_ID_STD, CAN_ID_EXT }, m \in TxMsgIds, d \in Payloads }

\* C7: when CanGetSpeedConfig fails inside CanInit the controller is not
\* programmed (no timing values, no reception filter) and the channel does
\* not become active; an active channel carries a validated timing.
C7_FailedConfigIsFatal ==
    /\ (rCalled /\ rResult = FALSE) =>
          /\ canState = "halted"
          /\ canBTR = BtrAtReset
          /\ canFilter = FilterAtEntry
    /\ (canState = "active" \/ canBTR.programmed) =>
          /\ rCalled /\ rResult = TRUE
          /\ canBTR.Prescaler >= 1 /\ canBTR.Prescaler <= 1024
          /\ \E i \in 1..Len(canTiming) :
                /\ canBTR.BS1 = << canTiming[i].tseg1 - 1, 0 >>
                /\ canBTR.BS2 = << (canTiming[i].tseg2 - 1) * 16, 0 >>

\* CanInit halted after a failed search that had written the prescaler
C7_Witness ==
    /\ canState = "halted"
    /\ rCalled
    /\ rResult = FALSE
    /\ rOut.prescaler = 1031

\* C8: CanReceivePacket returns a packet exactly when the controller handed
\* it a frame whose identifier and width are the configured ones.
C8_ReceiveOnlyMatching ==
    (lastOp.op = "recv" /\ lastOp.at = "active") =>
        (rxResult = TRUE <=>
            (lastOp.got /\ FrameMatches(BOOT_COM_CAN_RX_MSG_ID, lastOp.frame)))

\* a frame of the configured width with another identifier was handed over
\* by the controller and dropped
C8_Witness ==
    /\ lastOp.op = "recv"
    /\ lastOp.at = "active"
    /\ lastOp.got
    /\ rxResult = FALSE
    /\ lastOp.frame.ide = CAN_ID_EXT
    /\ BOOT_COM_CAN_RX_MSG_ID[1] >= 32768
    /\ lastOp.frame.id # << BOOT_COM_CAN_RX_MSG_ID[1] - 32768, BOOT_COM_CAN_RX_MSG_ID[2] >>

\* C9: a packet sent while the FIFO is empty, over the loss-free loopback
\* bus, to a receiver whose receive identifier is the transmit identifier,
\* is returned by the next CanReceivePacket with its length and bytes.
C9_RoundTrip ==
    ( /\ lastOp.op = "recv"
      /\ lastOp.sent
      /\ lastOp.fifoEmpty
      /\ BOOT_COM_CAN_RX_MSG_ID = BOOT_COM_CAN_TX_MSG_ID ) =>
        /\ rxResult = TRUE
        /\ rxLen = Len(lastOp.payload)
        /\ SubSeq(rxData, 1, rxLen) = lastOp.payload

\* a 3 byte packet made the round trip with a 29-bit identifier, after a
\* full 8 byte packet had been sent from the same message object
C9_Witness ==
    /\ lastOp.op = "recv"
    /\ lastOp.sent
    /\ lastOp.fifoEmpty
    /\ BOOT_COM_CAN_RX_MSG_ID = BOOT_COM_CAN_TX_MSG_ID
    /\ BOOT_COM_CAN_RX_MSG_ID[1] >= 32768
    /\ rxResult = TRUE
    /\ rxLen = 3
    /\ canTxMessage.Data[DataSize] # 0

\* C10: the filter programmed by CanInit passes a frame if and only if the
\* frame has the configured identifier and width.
C10_FilterPassesOnlyConfigured ==
    (canState = "active") =>
        \A f \in AllFrames :
            FilterPasses(canFilter, f) <=> FrameMatches(BOOT_COM_CAN_RX_MSG_ID, f)

\* C11: CanTransmitPacket and CanReceivePacket take effect only on an active
\* channel; called in another state they do not call into the bus hardware
\* driver and return no packet.
C11_OnlyInActive ==
    (lastOp.op \in { "send", "recv" } /\ lastOp.at # "active") =>
        /\ ~lastOp.hal
        /\ (lastOp.op = "recv") => (rxResult = FALSE)

\* C16: a packet returned by CanReceivePacket has a length of at most 8 and
\* no byte after the first 8 of the caller's buffer is written.
C16_LengthAtMost8 ==
    /\ (rxResult = TRUE) => rxLen <= DataSize
    /\ \A i \in (DataSize + 1)..RxBufSize : rxData[i] = 0

\* C18: a poll of the active channel takes the oldest pending frame out of the
\* FIFO, whatever its identifier; a frame that does not match yields no
\* packet and leaves the caller's buffer and length as they were, a matching
\* frame yields its bytes (and its length code as length); a poll that finds
\* no frame returns no packet and changes nothing.  So k mismatching frames
\* ahead of a matching one take k polls, and poll k + 1 returns the packet.
C18_MismatchConsumedOnce ==
    [][ (canState = "active" /\ opCount' = opCount + 1 /\ lastOp'.op = "recv") =>
          IF rxFifo = << >>
          THEN /\ rxResult' = FALSE
               /\ UNCHANGED << rxFifo, rxData, rxLen >>
          ELSE /\ rxFifo' = Tail(rxFifo)
               /\ IF FrameMatches(BOOT_COM_CAN_RX_MSG_ID, Head(rxFifo))
                  THEN /\ rxResult' = TRUE
                       /\ rxLen' = Head(rxFifo).dlc
                       /\ SubSeq(rxData', 1, Len(Head(rxFifo).data)) = Head(rxFifo).data
                  ELSE /\ rxResult' = FALSE
                       /\ UNCHANGED << rxData, rxLen >> ]_vars

\* two polls have been made and no packet was returned yet, the second took
\* a mismatching frame of the configured width out of the FIFO; the matching
\* frame is now the oldest
C18_Witness ==
    /\ canState = "active"
    /\ opCount = 2
    /\ lastOp.op = "recv"
    /\ lastOp.at = "active"
    /\ lastOp.got
    /\ lastOp.frame.ide = CAN_ID_EXT
    /\ BOOT_COM_CAN_RX_MSG_ID[1] >= 32768
    /\ rxResult = FALSE
    /\ rxLen = 0
    /\ rxData = ZeroBuf
    /\ Len(rxFifo) = 1
    /\ FrameMatches(BOOT_COM_CAN_RX_MSG_ID, Head(rxFifo))

NextResolver == ResolverCall

InitSpecResolver == InitResolver /\ IdleHandoff /\ IdleCan /\ IdleMem

SpecResolver == InitSpecResolver /\ [][NextResolver]_vars

=============================================================================
